---- MODULE Spec2Model ----
(***************************************************************************)
(* WorkLog API: the session store (database.py) and the key-checked HTTP   *)
(* handlers with the Discord notification queue (main.py).                 *)
(*                                                                         *)
(* Representation.                                                         *)
(*   Optional[T]   None is << >>, a present value v is <<v>>.              *)
(*   float hours   fixed point, an integer number of thousandths of an     *)
(*                 hour (0.5 h is 500, 10.0 h is 10000).                   *)
(*   dict          the sequence of its <<key, value>> items, in insertion  *)
(*                 order; the empty dict is << >>.                         *)
(*   timestamps    epoch milliseconds; the clock runs in January 1970 so   *)
(*                 that milliseconds fit 32-bit integers.                 *)
(***************************************************************************)
EXTENDS Integers, Sequences, FiniteSets, TLC

VARIABLES
    sessions,   \* the rows of table sessions (database.py:17-28)
    seq,        \* sqlite_sequence of the AUTOINCREMENT key: largest id ever assigned
    queue,      \* the lines of NOTIFY_QUEUE, oldest first
    now,        \* the wall clock, epoch milliseconds
    pc,         \* per request thread: "idle", or "saved" inside log_session after save_session
    cur,        \* per request thread: the log_session call in progress
    issued,     \* history: every id save_session has returned
    last        \* the event of the latest step: request, response, outcome

vars == <<sessions, seq, queue, now, pc, cur, issued, last>>

None == << >>
Some(v) == <<v>>

\* ------------------------------------------------------------------------
\* Bounds of the model
\* ------------------------------------------------------------------------
MaxInserts == 2
MaxTicks == 1

Threads == {"t1", "t2"}

MsPerDay == 24 * 60 * 60 * 1000
ClockStart == 2 * MsPerDay + 1000

\* ------------------------------------------------------------------------
\* Python and SQLite primitives
\* ------------------------------------------------------------------------
Digit == <<"0", "1", "2", "3", "4", "5", "6", "7", "8", "9">>

RECURSIVE IntToStr(_)
IntToStr(n) ==
    IF n < 10 THEN Digit[n + 1] ELSE IntToStr(n \div 10) \o Digit[(n % 10) + 1]

\* "%02d" and "%04d" of strftime
Pad(n, width) ==
    LET s == IntToStr(n)
        zeros == [i \in 1..4 |-> IF i <= width - Len(s) THEN "0" ELSE ""]
    IN zeros[1] \o zeros[2] \o zeros[3] \o zeros[4] \o s

\* Python truthiness of Optional[int], Optional[str], Optional[dict], Optional[float]
TruthyNum(o) == o # None /\ o[1] # 0
TruthyStr(o) == o # None /\ o[1] # ""
TruthyDict(o) == o # None /\ Len(o[1]) > 0

\* Python round(): to the nearest integer, a tie to the even one (n >= 0, d > 0)
RoundHalfEven(n, d) ==
    LET q == n \div d
        r == n % d
    IN  IF 2 * r < d THEN q
        ELSE IF 2 * r > d THEN q + 1
        ELSE IF q % 2 = 0 THEN q ELSE q + 1

\* SQLite ROUND(x, 2) on thousandths: to the nearest hundredth, a tie away from zero
Round2(x) ==
    IF x >= 0 THEN ((x + 5) \div 10) * 10 ELSE -(((-x + 5) \div 10) * 10)

Max(a, b) == IF a >= b THEN a ELSE b

IsLeap(y) == (y % 4 = 0 /\ y % 100 # 0) \/ y % 400 = 0
DaysInYear(y) == IF IsLeap(y) THEN 366 ELSE 365
DaysInMonth(y, m) ==
    IF m = 2 THEN (IF IsLeap(y) THEN 29 ELSE 28)
    ELSE IF m \in {4, 6, 9, 11} THEN 30 ELSE 31

RECURSIVE CivilYear(_, _)
CivilYear(days, y) ==
    IF days < DaysInYear(y) THEN <<y, days>> ELSE CivilYear(days - DaysInYear(y), y + 1)

RECURSIVE CivilMonth(_, _, _)
CivilMonth(days, y, m) ==
    IF days < DaysInMonth(y, m) THEN <<m, days + 1>>
    ELSE CivilMonth(days - DaysInMonth(y, m), y, m + 1)

\* datetime.fromtimestamp(ts / 1000, tz=timezone.utc).strftime("%Y-%m-%d"), ts >= 0
StrfDate(ts) ==
    LET yd == CivilYear(ts \div MsPerDay, 1970)
        md == CivilMonth(yd[2], yd[1], 1)
    IN  Pad(yd[1], 4) \o "-" \o Pad(md[1], 2) \o "-" \o Pad(md[2], 2)

RECURSIVE JsonItems(_)
JsonItems(items) ==
    IF Len(items) = 0 THEN ""
    ELSE "\"" \o items[1][1] \o "\": " \o IntToStr(items[1][2])
         \o (IF Len(items) = 1 THEN "" ELSE ", " \o JsonItems(Tail(items)))

\* json.dumps of a dict of string keys and small non-negative integers
JsonDumps(items) == "{" \o JsonItems(items) \o "}"

\* ------------------------------------------------------------------------
\* database.py
\* ------------------------------------------------------------------------
RECURSIVE MaxRowId(_)
MaxRowId(S) ==
    IF S = {} THEN 0
    ELSE LET r == CHOOSE x \in S : TRUE IN Max(r.id, MaxRowId(S \ {r}))

\* A faulty variant: INTEGER PRIMARY KEY without AUTOINCREMENT, one more than the largest
\* id now in the table
NextRowIdOfTable(S, sq) == MaxRowId(S) + 1

\* INTEGER PRIMARY KEY AUTOINCREMENT: one more than the largest id the table
\* has ever held, which sqlite_sequence remembers across deletes
NextRowId(S, sq) == Max(sq, MaxRowId(S)) + 1

\* ts = timestamp or int(time.time() * 1000)
DefaultTs(timestamp, clock) == IF TruthyNum(timestamp) THEN timestamp[1] ELSE clock

\* dt = date or datetime.fromtimestamp(ts / 1000, tz=timezone.utc).strftime("%Y-%m-%d")
DefaultDate(date, ts) == IF TruthyStr(date) THEN date[1] ELSE StrfDate(ts)

\* meta_str = json.dumps(metadata) if metadata else None
MetaStr(metadata) == IF TruthyDict(metadata) THEN Some(JsonDumps(metadata[1])) ELSE None

\* The row save_session inserts; its id is cur.lastrowid
SaveSession(S, sq, clock, project, description, task_type, actual_hours, manual_estimate, timestamp, date, metadata) ==
    LET ts == DefaultTs(timestamp, clock)
    IN  [id |-> NextRowId(S, sq),
         project |-> project,
         description |-> description,
         task_type |-> task_type,
         actual_hours |-> actual_hours,
         manual_estimate |-> manual_estimate,
         timestamp |-> ts,
         date |-> DefaultDate(date, ts),
         metadata |-> MetaStr(metadata),
         created_at |-> clock \div 1000]

\* A faulty variant: ORDER BY timestamp ASC
IsTimestampAsc(rows) ==
    \A i \in 1..Len(rows) : \A j \in 1..Len(rows) :
        i < j => rows[i].timestamp <= rows[j].timestamp

\* The orders "ORDER BY timestamp DESC" allows: rows of equal timestamp come in
\* any order, SQL leaves it to the engine
IsTimestampDesc(rows) ==
    \A i \in 1..Len(rows) : \A j \in 1..Len(rows) :
        i < j => rows[i].timestamp >= rows[j].timestamp

Orderings(S) ==
    {f \in [1..Cardinality(S) -> S] :
        /\ \A i \in 1..Cardinality(S) : \A j \in 1..Cardinality(S) : i # j => f[i] # f[j]
        /\ IsTimestampDesc(f)}

\* The JSON value of a column in the response: dict(r) keeps the TEXT of column
\* metadata as it is stored, so it goes out as a JSON string, or as null
ResponseJson(column) == IF column = None THEN <<"null">> ELSE <<"string", column[1]>>

\* LIMIT n: the first n rows; a negative n is no limit (SQLite)
SqlLimit(rows, n) ==
    IF n < 0 \/ n >= Len(rows) THEN rows ELSE SubSeq(rows, 1, n)

\* get_sessions(limit): every list of dict(row) the query may return
GetSessions(S, limit) == {SqlLimit(f, limit) : f \in Orderings(S)}

\* CASE WHEN manual_estimate IS NOT NULL THEN MAX(0, manual_estimate - actual_hours) ELSE 0 END
SavedOfRow(r) ==
    IF r.manual_estimate # None THEN Max(0, r.manual_estimate[1] - r.actual_hours) ELSE 0

RECURSIVE SumDifference(_)
SumDifference(S) ==
    IF S = {} THEN 0
    ELSE LET r == CHOOSE x \in S : TRUE
         IN  (IF r.manual_estimate # None THEN r.manual_estimate[1] - r.actual_hours ELSE 0)
             + SumDifference(S \ {r})

\* A faulty variant: MAX(0, SUM(manual_estimate - actual_hours)), the floor taken of the total
SumSavedFloorOfTotal(S) == Max(0, SumDifference(S))

\* SUM(...) of the per-row terms
RECURSIVE SumSaved(_)
SumSaved(S) ==
    IF S = {} THEN 0
    ELSE LET r == CHOOSE x \in S : TRUE IN SavedOfRow(r) + SumSaved(S \ {r})

RECURSIVE SumActual(_)
SumActual(S) ==
    IF S = {} THEN 0
    ELSE LET r == CHOOSE x \in S : TRUE IN r.actual_hours + SumActual(S \ {r})

\* SUM over no rows is NULL, and ROUND(NULL, 2) is NULL
HoursSaved(S) == IF S = {} THEN None ELSE Some(Round2(SumSaved(S)))

TotalHours(S) == IF S = {} THEN None ELSE Some(Round2(SumActual(S)))

GetStats(S) ==
    [total_sessions |-> Cardinality(S),
     total_hours |-> TotalHours(S),
     hours_saved |-> HoursSaved(S),
     project_count |-> Cardinality({r.project : r \in S})]

\* A faulty variant: DELETE FROM sessions WHERE id <= ?
DeleteSessionUpTo(S, session_id) == {r \in S : r.id > session_id}

\* DELETE FROM sessions WHERE id = ?
DeleteSession(S, session_id) == {r \in S : r.id # session_id}

\* ------------------------------------------------------------------------
\* main.py: notifier
\* ------------------------------------------------------------------------
API_KEY == "wl-justin-2026"
DISCORD_LOGS_CHANNEL == "1476717294397952071"

\* A faulty variant: the header is only required to be present
RequireKeyPresent(x_wl_key) == x_wl_key # None

RequireKey(x_wl_key) == x_wl_key = Some(API_KEY)

\* A faulty variant: actual_hours > 0.5
ShouldNotifyAbove(task_type, actual_hours, manual_estimate) ==
    \/ task_type = "scan"
    \/ actual_hours > 500
    \/ (manual_estimate # 0 /\ manual_estimate >= 10000)

\* manual_estimate is "session.manual_estimate or 0" at both call sites
ShouldNotify(task_type, actual_hours, manual_estimate) ==
    \/ task_type = "scan"
    \/ actual_hours >= 500
    \/ (manual_estimate # 0 /\ manual_estimate >= 10000)

\* f"{x}" of a float held in tenths
FloatStr1(tenths) == IntToStr(tenths \div 10) \o "." \o IntToStr(tenths % 10)

\* mins = round(actual_hours * 60, 1), in tenths of a minute
MinsTenths(actual_hours) == RoundHalfEven(actual_hours * 3, 5)

TimeStr(actual_hours) ==
    IF MinsTenths(actual_hours) < 600
    THEN FloatStr1(MinsTenths(actual_hours)) \o "m"
    ELSE FloatStr1(RoundHalfEven(actual_hours, 100)) \o "h"

\* Whether "manual_estimate / actual_hours" is evaluated with a zero divisor
BuildRaises(actual_hours, manual_estimate) ==
    manual_estimate # 0 /\ manual_estimate > 0 /\ actual_hours = 0

\* The message, as the list of the parts the source joins with " · "
\* (description is "session.description or ''")
BuildNotifyMessage(project, description, task_type, actual_hours, manual_estimate) ==
    <<"WorkLog", project,
      IF description # "" THEN description ELSE task_type,
      TimeStr(actual_hours)>>
    \o (IF manual_estimate # 0 /\ manual_estimate > 0
        THEN <<IntToStr(RoundHalfEven(manual_estimate, actual_hours))
               \o "x faster than manual">>
        ELSE << >>)

\* A faulty variant: no try/except around the write
NotifyDiscordUncaught(q, message, clock, fault) ==
    [queue |-> IF fault THEN q
               ELSE Append(q, [channel |-> DISCORD_LOGS_CHANNEL,
                               message |-> message,
                               ts |-> clock]),
     raised |-> fault]

\* notify_discord: the queue after the call and whether the call raised. A fault
\* of open() or write() is caught by "except Exception: pass"
NotifyDiscord(q, message, clock, fault) ==
    [queue |-> IF fault THEN q
               ELSE Append(q, [channel |-> DISCORD_LOGS_CHANNEL,
                               message |-> message,
                               ts |-> clock]),
     raised |-> FALSE]

\* ------------------------------------------------------------------------
\* main.py: the request handlers
\* ------------------------------------------------------------------------
\* What a step did: the operation, the X-WL-Key header it carried, the HTTP status
\* of the response (0 while log_session is still running), the SessionIn body,
\* the id in the response, the limit or session_id argument, the rows or the
\* statistics of the response, and whether the queue file write faulted
Event(op, step, key, status, req, id, arg, body, stats, fault) ==
    [op |-> op, step |-> step, key |-> key, status |-> status, req |-> req,
     id |-> id, arg |-> arg, body |-> body, stats |-> stats, fault |-> fault]

NoCall == [session |-> None, task_type |-> "", session_id |-> 0]

\* session.task_type or "manual"
TaskTypeOf(s) == IF TruthyStr(s.task_type) THEN s.task_type[1] ELSE "manual"

\* session.manual_estimate or 0
EstimateOf(s) == IF TruthyNum(s.manual_estimate) THEN s.manual_estimate[1] ELSE 0

\* session.description or ""
DescriptionOf(s) == IF TruthyStr(s.description) THEN s.description[1] ELSE ""

\* log_session up to the return of save_session: the key check, then the insert
\* (one committed transaction)
LogSessionSave(t, s, key) ==
    /\ pc[t] = "idle"
    /\ IF ~RequireKey(key)
       THEN /\ last' = Event("log", "done", key, 401, Some(s), None, None, << >>, None, FALSE)
            /\ UNCHANGED <<sessions, seq, queue, now, pc, cur, issued>>
       ELSE /\ Cardinality(issued) < MaxInserts
            /\ LET row == SaveSession(sessions, seq, now, s.project, s.description,
                                      TaskTypeOf(s), s.actual_hours, s.manual_estimate,
                                      s.timestamp, s.date, s.metadata)
               IN  /\ sessions' = sessions \cup {row}
                   /\ seq' = Max(seq, row.id)
                   /\ issued' = issued \cup {row.id}
                   /\ pc' = [pc EXCEPT ![t] = "saved"]
                   /\ cur' = [cur EXCEPT ![t] = [session |-> Some(s),
                                                 task_type |-> TaskTypeOf(s),
                                                 session_id |-> row.id]]
                   /\ last' = Event("log", "saved", key, 0, Some(s), Some(row.id),
                                    None, << >>, None, FALSE)
            /\ UNCHANGED <<queue, now>>

\* log_session from should_notify to the response. fault: the environment fails
\* the queue file's open() or write()
LogSessionNotify(t, fault) ==
    /\ pc[t] = "saved"
    /\ LET s == cur[t].session[1]
           id == cur[t].session_id
           done(status, rid, f) ==
               Event("log", "done", Some(API_KEY), status, Some(s), rid, None, << >>, None, f)
       IN  IF ShouldNotify(cur[t].task_type, s.actual_hours, EstimateOf(s))
           THEN IF BuildRaises(s.actual_hours, EstimateOf(s))
                THEN \* ZeroDivisionError leaves the handler: 500 Internal Server Error
                     /\ ~fault
                     /\ queue' = queue
                     /\ last' = done(500, None, FALSE)
                ELSE LET r == NotifyDiscord(queue,
                                  BuildNotifyMessage(s.project, DescriptionOf(s),
                                      cur[t].task_type, s.actual_hours, EstimateOf(s)),
                                  now, fault)
                     IN  /\ queue' = r.queue
                         /\ last' = IF r.raised THEN done(500, None, fault)
                                    ELSE done(200, Some(id), fault)
           ELSE /\ ~fault
                /\ queue' = queue
                /\ last' = done(200, Some(id), FALSE)
    /\ pc' = [pc EXCEPT ![t] = "idle"]
    /\ cur' = [cur EXCEPT ![t] = NoCall]
    /\ UNCHANGED <<sessions, seq, now, issued>>

ListSessions(key, limit) ==
    /\ IF ~RequireKey(key)
       THEN last' = Event("list", "done", key, 401, None, None, Some(limit), << >>, None, FALSE)
       ELSE \E rows \in GetSessions(sessions, limit) :
                last' = Event("list", "done", key, 200, None, None, Some(limit), rows, None, FALSE)
    /\ UNCHANGED <<sessions, seq, queue, now, pc, cur, issued>>

Stats(key) ==
    /\ IF ~RequireKey(key)
       THEN last' = Event("stats", "done", key, 401, None, None, None, << >>, None, FALSE)
       ELSE last' = Event("stats", "done", key, 200, None, None, None, << >>,
                          Some(GetStats(sessions)), FALSE)
    /\ UNCHANGED <<sessions, seq, queue, now, pc, cur, issued>>

RemoveSession(key, session_id) ==
    /\ IF ~RequireKey(key)
       THEN /\ last' = Event("delete", "done", key, 401, None, None, Some(session_id),
                             << >>, None, FALSE)
            /\ sessions' = sessions
       ELSE /\ sessions' = DeleteSession(sessions, session_id)
            /\ last' = Event("delete", "done", key, 200, None, None, Some(session_id),
                             << >>, None, FALSE)
    /\ UNCHANGED <<seq, queue, now, pc, cur, issued>>

\* A day passes on the wall clock
Tick ==
    /\ now < ClockStart + MaxTicks * MsPerDay
    /\ now' = now + MsPerDay
    /\ last' = Event("tick", "done", None, 0, None, None, None, << >>, None, FALSE)
    /\ UNCHANGED <<sessions, seq, queue, pc, cur, issued>>

\* ------------------------------------------------------------------------
\* Requests. A workload names the request threads that serve log_session, the
\* SessionIn bodies, the X-WL-Key headers, the limits and whether the queue
\* file may fault; the specifications differ in their workload only.
\* ------------------------------------------------------------------------
Keys == {Some(API_KEY), Some("wl-justin-2025"), None}

SomeKeys == {Some(API_KEY), None}

Limits == {0, 1, 2}

SessionIds == 1..(MaxInserts + 1)

Plain ==
    [project |-> "worklog", description |-> None, task_type |-> None,
     actual_hours |-> 400, manual_estimate |-> None, timestamp |-> None,
     date |-> None, metadata |-> None]

\* One quiet session and one that is announced
CoreInputs ==
    {Plain,
     [Plain EXCEPT !.project = "site", !.description = Some("deploy"),
                   !.actual_hours = 2000, !.manual_estimate = Some(10000)]}

CoreLoad ==
    [threads |-> Threads, inputs |-> CoreInputs, keys |-> Keys,
     limits |-> {2}, faults |-> {FALSE}]

\* Defaulted and caller-supplied timestamp, date, task_type and metadata
RecordInputs ==
    {Plain,
     [Plain EXCEPT !.task_type = Some(""), !.timestamp = Some(0),
                   !.metadata = Some(<< <<"pr", 7>> >>)],
     [Plain EXCEPT !.description = Some("review"), !.task_type = Some("timer"),
                   !.timestamp = Some(MsPerDay), !.metadata = Some(<< >>)],
     [Plain EXCEPT !.timestamp = Some(MsPerDay + 5), !.date = Some("1970-02-01")]}

RecordLoad ==
    [threads |-> {"t1"}, inputs |-> RecordInputs, keys |-> SomeKeys,
     limits |-> {2}, faults |-> {FALSE}]

\* Estimates above and below the hours worked, equal and distinct timestamps
QueryInputs ==
    {Plain,
     [Plain EXCEPT !.actual_hours = 2000, !.manual_estimate = Some(1004),
                   !.timestamp = Some(MsPerDay)],
     [Plain EXCEPT !.project = "site", !.manual_estimate = Some(1004),
                   !.timestamp = Some(MsPerDay)]}

QueryLoad ==
    [threads |-> {"t1"}, inputs |-> QueryInputs, keys |-> SomeKeys,
     limits |-> Limits, faults |-> {FALSE}]

\* Each clause of the notification policy alone, and none of them
NotifyInputs ==
    {[Plain EXCEPT !.actual_hours = 499, !.manual_estimate = Some(9999)],
     [Plain EXCEPT !.task_type = Some("scan"), !.actual_hours = 10],
     [Plain EXCEPT !.actual_hours = 500],
     [Plain EXCEPT !.description = Some("audit"), !.manual_estimate = Some(10000)]}

NotifyLoad ==
    [threads |-> {"t1"}, inputs |-> NotifyInputs, keys |-> SomeKeys,
     limits |-> {2}, faults |-> BOOLEAN]

\* Sessions of zero duration: announced without an estimate, and with one
ZeroInputs ==
    {[Plain EXCEPT !.task_type = Some("scan"), !.actual_hours = 0],
     [Plain EXCEPT !.actual_hours = 0, !.manual_estimate = Some(10000)],
     [Plain EXCEPT !.task_type = Some("scan"), !.actual_hours = 0,
                   !.manual_estimate = Some(1004)]}

ZeroLoad ==
    [threads |-> {"t1"}, inputs |-> ZeroInputs, keys |-> SomeKeys,
     limits |-> {2}, faults |-> BOOLEAN]

Init ==
    /\ sessions = {}
    /\ seq = 0
    /\ queue = << >>
    /\ now = ClockStart
    /\ pc = [t \in Threads |-> "idle"]
    /\ cur = [t \in Threads |-> NoCall]
    /\ issued = {}
    /\ last = Event("startup", "done", None, 0, None, None, None, << >>, None, FALSE)

NextOn(load) ==
    \/ \E t \in load.threads, s \in load.inputs, key \in load.keys : LogSessionSave(t, s, key)
    \/ \E t \in load.threads, fault \in load.faults : LogSessionNotify(t, fault)
    \/ \E key \in load.keys, limit \in load.limits : ListSessions(key, limit)
    \/ \E key \in load.keys : Stats(key)
    \/ \E key \in load.keys, session_id \in SessionIds : RemoveSession(key, session_id)
    \/ Tick

Spec == Init /\ [][NextOn(CoreLoad)]_vars

SpecRecord == Init /\ [][NextOn(RecordLoad)]_vars

SpecQuery == Init /\ [][NextOn(QueryLoad)]_vars

SpecNotify == Init /\ [][NextOn(NotifyLoad)]_vars

SpecZero == Init /\ [][NextOn(ZeroLoad)]_vars

\* ------------------------------------------------------------------------
\* Properties
\* ------------------------------------------------------------------------
Protected == {"log", "list", "stats", "delete"}

LogSaved(e) == e.op = "log" /\ e.step = "saved"

LogDone(e) == e.op = "log" /\ e.step = "done" /\ e.key = Some(API_KEY)

LogOk(e) == LogDone(e) /\ e.status = 200

Answered(e, op) == e.op = op /\ e.key = Some(API_KEY) /\ e.status = 200

RowsWithId(S, id) == {r \in S : r.id = id}

\* C1: a request to record, list, stats or remove whose key is absent or is not
\* the shared secret is answered 401, and the stored rows and the queue are
\* after it what they were before it.
C1_UnauthorizedHasNoEffect ==
    [][(last'.op \in Protected /\ last'.key # Some(API_KEY))
        => (last'.status = 401 /\ sessions' = sessions /\ queue' = queue)]_vars

\* A wrong key was refused on a store and a queue that hold something
C1_Witness ==
    /\ last.op = "log"
    /\ last.key = Some("wl-justin-2025")
    /\ last.status = 401
    /\ sessions # {}
    /\ queue # << >>

\* What the request submitted and what list returns for it
SubmittedJson(metadata) ==
    IF metadata = None THEN <<"null">> ELSE <<"object", metadata[1]>>

RoundTrips(s, r) ==
    /\ r.project = s.project
    /\ r.description = s.description
    /\ r.actual_hours = s.actual_hours
    /\ r.manual_estimate = s.manual_estimate
    /\ (s.timestamp # None => r.timestamp = s.timestamp[1])
    /\ (s.date # None => r.date = s.date[1])
    /\ (TruthyStr(s.task_type) => r.task_type = s.task_type[1])
    /\ (s.metadata # None => ResponseJson(r.metadata) = SubmittedJson(s.metadata))

\* C2: once a record request has stored its row, every list that has room for it
\* returns a session with the submitted project, description, actual_hours,
\* manual_estimate, and the timestamp, date, task_type and metadata the caller
\* supplied, the metadata as the map that was submitted (an empty map included).
C2_RecordThenListRoundTrips ==
    LogSaved(last) =>
        \A rows \in GetSessions(sessions, Cardinality(sessions)) :
            \E i \in 1..Len(rows) :
                rows[i].id = last.id[1] /\ RoundTrips(last.req[1], rows[i])

\* C3: create with a timestamp and no date stores that timestamp and its UTC
\* calendar date, for timestamp 0 too, which gives "1970-01-01".
C3_SuppliedTimestampIsKept ==
    (LogSaved(last) /\ last.req[1].timestamp # None /\ last.req[1].date = None)
        => \A r \in RowsWithId(sessions, last.id[1]) :
               /\ r.timestamp = last.req[1].timestamp[1]
               /\ r.date = StrfDate(last.req[1].timestamp[1])
               /\ (last.req[1].timestamp[1] = 0 => r.date = "1970-01-01")

\* C4: when the write to the queue file fails in a record request whose row is
\* stored, the response is still {ok: true, id} with the id of that row, no row
\* is taken back and nothing is written to the queue by a second attempt.
C4_QueueFaultIsSwallowed ==
    [][(LogDone(last') /\ last'.fault)
        => /\ last'.status = 200
           /\ \E t \in Threads : pc[t] = "saved" /\ last'.id = Some(cur[t].session_id)
           /\ sessions' = sessions
           /\ queue' = queue]_vars

\* The write faulted, the caller got the id, the row is in the store
C4_Witness ==
    /\ LogOk(last)
    /\ last.fault
    /\ RowsWithId(sessions, last.id[1]) # {}

\* C5 as stated: every successful record returns an id greater than every id
\* returned before it (here: than the id of the successful record response
\* just before it).
C5_ResponsesCarryIncreasingIds ==
    [][(LogOk(last) /\ LogOk(last')) => last'.id[1] > last.id[1]]_vars

\* C5 as amended: every insert is given an id greater than every id given
\* before it, whether or not the rows that held them were deleted since, and
\* the record request answers with the id of its own row.
C5_InsertsGetIncreasingIds ==
    [][/\ \A t \in Threads :
            (pc[t] = "idle" /\ pc'[t] = "saved")
                => /\ \A j \in issued : cur'[t].session_id > j
                   /\ RowsWithId(sessions, cur'[t].session_id) = {}
                   /\ Cardinality(RowsWithId(sessions', cur'[t].session_id)) = 1
       /\ \A t \in Threads :
            (pc[t] = "saved" /\ pc'[t] = "idle" /\ last'.status = 200)
                => last'.id = Some(cur[t].session_id)
       /\ \A t \in Threads : \A u \in Threads :
            (t # u /\ pc[t] = "saved" /\ pc[u] = "saved")
                => cur[t].session_id # cur[u].session_id]_vars

\* A row was inserted after the only earlier row was deleted, and got a new id
C5_Witness ==
    /\ LogSaved(last)
    /\ last.id = Some(2)
    /\ issued = {1, 2}
    /\ RowsWithId(sessions, 1) = {}

\* C6: delete(id) removes the row with that id and no other, leaves the other
\* rows as they are, and where no row has the id it answers {ok: true} and the
\* stored rows are unchanged.
C6_DeleteRemovesExactlyOneRow ==
    [][(last'.op = "delete" /\ last'.key = Some(API_KEY))
        => /\ last'.status = 200
           /\ sessions' \subseteq sessions
           /\ \A r \in sessions : r \in sessions' <=> r.id # last'.arg[1]
           /\ (RowsWithId(sessions, last'.arg[1]) = {}
                 => sessions' = sessions /\ Cardinality(sessions') = Cardinality(sessions))]_vars

\* A stored row was deleted and another row is still there
C6_Witness ==
    /\ Answered(last, "delete")
    /\ last.arg[1] \in issued
    /\ RowsWithId(sessions, last.arg[1]) = {}
    /\ sessions # {}

\* The hours saved session by session: estimate minus actual where there is an
\* estimate and it is the larger, nothing otherwise
SessionsSaving(S) == {r \in S : r.manual_estimate # None /\ r.manual_estimate[1] > r.actual_hours}

RECURSIVE SavingOf(_)
SavingOf(S) ==
    IF S = {} THEN 0
    ELSE LET r == CHOOSE x \in S : TRUE
         IN  (r.manual_estimate[1] - r.actual_hours) + SavingOf(S \ {r})

\* The number a statistic stands for: an absent one stands for zero
HoursOf(o) == IF o = None THEN 0 ELSE o[1]

\* C7 as stated: stats().hours_saved is the sum over the sessions with an
\* estimate of max(0, manual_estimate - actual_hours), and is never negative.
C7_HoursSavedIsTheSum ==
    Answered(last, "stats")
        => HoursOf(last.stats[1].hours_saved) = SavingOf(SessionsSaving(sessions))

\* C7 as amended: hours_saved is that sum rounded to two decimals (a whole
\* number of hundredths, within half a hundredth of the sum, a tie going up), so
\* it is never negative; over an empty store it is NULL, which stands for zero.
C7_HoursSavedIsTheRoundedSum ==
    Answered(last, "stats")
        => /\ (last.stats[1].hours_saved = None <=> sessions = {})
           /\ HoursOf(last.stats[1].hours_saved) >= 0
           /\ HoursOf(last.stats[1].hours_saved) % 10 = 0
           /\ HoursOf(last.stats[1].hours_saved) - SavingOf(SessionsSaving(sessions)) \in -4..5

\* One session took longer than its estimate, another saved time
C7_Witness ==
    /\ Answered(last, "stats")
    /\ \E r \in sessions : r.manual_estimate # None /\ r.manual_estimate[1] < r.actual_hours
    /\ SessionsSaving(sessions) # {}
    /\ last.stats[1].hours_saved[1] > 0

ListedLatestFirst(rows) ==
    \A i \in 1..(Len(rows) - 1) : rows[i].timestamp >= rows[i + 1].timestamp

ListedTiesNewestIdFirst(rows) ==
    \A i \in 1..(Len(rows) - 1) :
        rows[i].timestamp = rows[i + 1].timestamp => rows[i].id > rows[i + 1].id

\* rows are min(limit, number of rows) different stored rows, and no row left
\* out is more recent than a row returned
ListedMostRecent(rows, S, limit) ==
    /\ Len(rows) = (IF limit <= Cardinality(S) THEN limit ELSE Cardinality(S))
    /\ \A i \in 1..Len(rows) : rows[i] \in S
    /\ \A i \in 1..Len(rows) : \A j \in 1..Len(rows) : i # j => rows[i] # rows[j]
    /\ \A r \in S :
           (\A i \in 1..Len(rows) : rows[i] # r)
               => \A i \in 1..Len(rows) : rows[i].timestamp >= r.timestamp

\* C8 as stated: list(limit) returns at most limit sessions, the most recent
\* ones, by timestamp descending, sessions of equal timestamp by id descending.
C8_ListOrdersTiesById ==
    Answered(last, "list")
        => /\ ListedMostRecent(last.body, sessions, last.arg[1])
           /\ ListedLatestFirst(last.body)
           /\ ListedTiesNewestIdFirst(last.body)

\* C8 as amended: for a limit >= 0, list(limit) returns at most limit sessions,
\* the most recent ones, by timestamp descending; the order of sessions of equal
\* timestamp is not determined.
C8_ListOrdersByTimestamp ==
    Answered(last, "list")
        => /\ ListedMostRecent(last.body, sessions, last.arg[1])
           /\ ListedLatestFirst(last.body)

\* The limit cut the list: the later of two sessions was returned
C8_Witness ==
    /\ Answered(last, "list")
    /\ last.arg = Some(1)
    /\ Len(last.body) = 1
    /\ \E r \in sessions : r.timestamp < last.body[1].timestamp

\* C9: a record request with actual_hours 0 and an estimate that makes it
\* announced (manual_estimate >= 10.0, or task_type "scan" with an estimate
\* above 0) is answered {ok: true, id}.
C9_ZeroHoursIsAnswered ==
    (LogDone(last)
       /\ last.req[1].actual_hours = 0
       /\ last.req[1].manual_estimate # None
       /\ \/ last.req[1].manual_estimate[1] >= 10000
          \/ (last.req[1].task_type = Some("scan") /\ last.req[1].manual_estimate[1] > 0))
        => (last.status = 200 /\ last.id # None)

\* The policy as the specification words it
Notable(s) ==
    \/ s.task_type = Some("scan")
    \/ s.actual_hours >= 500
    \/ (s.manual_estimate # None /\ s.manual_estimate[1] >= 10000)

AppendedOne(q, q2) == Len(q2) = Len(q) + 1 /\ SubSeq(q2, 1, Len(q)) = q

\* C10 as stated: a successful record request appends exactly one line to the
\* queue if the session is notable, and nothing otherwise.
C10_NotableIsAlwaysQueued ==
    [][LogOk(last')
        => IF Notable(last'.req[1]) THEN AppendedOne(queue, queue') ELSE queue' = queue]_vars

\* C10 as amended: a successful record request appends exactly one line to the
\* queue if the session is notable and the write to the queue file does not
\* fail, and nothing otherwise; the line is appended after the row was stored,
\* by the request that stored it; no other step changes the queue.
C10_NotableIsQueuedUnlessTheWriteFails ==
    [][/\ LogOk(last')
            => IF Notable(last'.req[1]) /\ ~last'.fault
               THEN /\ AppendedOne(queue, queue')
                    /\ queue'[Len(queue')].message[2] = last'.req[1].project
               ELSE queue' = queue
       /\ queue' # queue
            => /\ LogOk(last')
               /\ \E t \in Threads :
                      /\ pc[t] = "saved"
                      /\ last'.id = Some(cur[t].session_id)
                      /\ cur[t].session_id \in issued]_vars

\* A session notable by its hours alone was stored and then queued
C10_Witness ==
    /\ LogOk(last)
    /\ last.req[1].actual_hours = 500
    /\ ~last.fault
    /\ queue # << >>
    /\ queue[Len(queue)].message[4] = "30.0m"

====
